---- MODULE Spec2Model ----
(***************************************************************************)
(* State-machine model of src/src/auth/AuthSwitcher.js: account rotation,  *)
(* failure tracking and usage-based switching.                             *)
(*                                                                         *)
(* JavaScript runs one callback at a time, so every action below is one    *)
(* run-to-the-next-await segment of an async method.  A call slot in       *)
(* Calls is one invocation of a public method by some caller; its pc is    *)
(* the await it is suspended at.                                           *)
(***************************************************************************)
EXTENDS FiniteSets, Integers, Sequences, TLC

(* ------------------------------ bounds -------------------------------- *)

\* number of call slots (concurrently outstanding method invocations)
NumCalls == 2
\* candidate identifiers are 0..MaxId
MaxId == 2
\* cap on failureCount / usageCount increments
MaxCount == 2

Calls == 1..NumCalls
Ids == 0..MaxId

(* --------------------------- input domains ---------------------------- *)

\* config.immediateSwitchStatusCodes
immediateSwitchStatusCodes == {429, 503}
\* errorDetails.status values reported by callers
Statuses == {429, 500}
\* config.switchOnUses values (0 disables usage-based switching)
SwitchOnUsesValues == {0, 1, 2}
\* config.failureThreshold values (0 disables the threshold)
FailureThresholds == {0, 2}

\* the ascending sequences over S
RECURSIVE AscendingSeqs(_)
AscendingSeqs(S) ==
    IF S = {} THEN {<<>>}
    ELSE LET top == CHOOSE x \in S : \A y \in S : y <= x
             rest == AscendingSeqs(S \ {top})
         IN  rest \cup {Append(s, top) : s \in rest}

\* authSource.availableIndices: a list of distinct identifiers; the lists are
\* enumerated in ascending order, over every subset of Ids
AvailableLists == AscendingSeqs(Ids)

\* messages the session provider's rejections may carry
ProviderMessages ==
    { "Only one account is available",
      "Fallback failed reason",
      "Switching to account",
      "Browser launch failed" }

(* ------------------------- JavaScript helpers ------------------------- *)

\* null and a present value, for locals that may be null
Null == <<>>
Some(v) == <<v>>

\* JavaScript truthiness of a number-or-null value: null and 0 are falsy
Truthy(v) == v # Null /\ v[1] # 0

\* Array.prototype.indexOf, 0-based, -1 when absent
indexOf(arr, v) ==
    IF \E k \in DOMAIN arr : arr[k] = v
    THEN (CHOOSE k \in DOMAIN arr :
              arr[k] = v /\ \A j \in DOMAIN arr : arr[j] = v => k <= j) - 1
    ELSE -1

\* membership never refused
includesAlways(arr, v) == TRUE

\* Array.prototype.includes
includes(arr, v) == \E k \in DOMAIN arr : arr[k] = v

\* arr[k] with a 0-based index
At(arr, k) == arr[k + 1]

(* ------------------------------- state -------------------------------- *)

VARIABLES
    availableIndices,   \* authSource.availableIndices
    currentAuthIndex,   \* browserManager.currentAuthIndex (0 = no account)
    failureThreshold,   \* config.failureThreshold
    failureCount,       \* this.failureCount
    usageCount,         \* this.usageCount
    isSystemBusy,       \* this.isSystemBusy
    pc,                 \* per call: the await the call is suspended at
    op,                 \* per call: the public method that was invoked
    arg,                \* per call: the arguments of the invocation
    locals,             \* per call: the local variables of switchToNextAuth
    switchOutcome,      \* per call: how switchToNextAuth/switchToSpecificAuth settled
    handlerOutcome,     \* per call: how handleRequestFailureAndSwitch settled
    attempts,           \* per call: the browserManager calls it has issued, in order
    entryIndex,         \* per call: currentAuthIndex when switchToNextAuth was entered
    sent,               \* per call: the messages passed to sendErrorCallback
    switched,           \* history: some session activation has succeeded
    returnValue         \* per call: what a synchronous method returned

vars == << availableIndices, currentAuthIndex, failureThreshold, failureCount,
           usageCount, isSystemBusy, pc, op, arg, locals, switchOutcome,
           handlerOutcome, attempts, entryIndex, sent, switched, returnValue >>

\* the awaits on the session provider
AwaitPcs == {"restart", "switch", "final", "specific"}

NoArg ==
    [targetIndex |-> Null, status |-> Null, sendErrorCallback |-> FALSE,
     switchOnUses |-> Null]

NoLocals ==
    [ singleIndex          |-> Null,
      currentIndexInArray  |-> -1,
      hasCurrentAccount    |-> FALSE,
      startIndex           |-> 0,
      originalStartAccount |-> Null,
      failedAccounts       |-> <<>>,
      startOffset          |-> 0,
      tryCount             |-> 0,
      i                    |-> 0,
      accountIndex         |-> Null ]

NoOutcome == [kind |-> "none"]
Returned(v) == [kind |-> "return", value |-> v]
Threw(e) == [kind |-> "throw", error |-> e]

TypeOK ==
    /\ availableIndices \in AvailableLists
    /\ currentAuthIndex \in Ids
    /\ failureThreshold \in FailureThresholds
    /\ failureCount \in 0..MaxCount
    /\ usageCount \in 0..MaxCount
    /\ isSystemBusy \in BOOLEAN
    /\ pc \in [Calls -> {"idle", "resume", "done"} \cup AwaitPcs]
    /\ op \in [Calls -> {"none", "switchToNextAuth", "switchToSpecificAuth",
                         "handleRequestFailureAndSwitch", "getNextAuthIndex",
                         "incrementUsageCount", "shouldSwitchByUsage"}]
    /\ \A c \in Calls : switchOutcome[c].kind \in {"none", "return", "throw"}
    /\ \A c \in Calls : handlerOutcome[c].kind \in {"none", "return", "throw"}

Init ==
    /\ availableIndices \in AvailableLists
    /\ currentAuthIndex \in Ids
    /\ failureThreshold \in FailureThresholds
    /\ failureCount = 0
    /\ usageCount = 0
    /\ isSystemBusy = FALSE
    /\ pc = [c \in Calls |-> "idle"]
    /\ op = [c \in Calls |-> "none"]
    /\ arg = [c \in Calls |-> NoArg]
    /\ locals = [c \in Calls |-> NoLocals]
    /\ switchOutcome = [c \in Calls |-> NoOutcome]
    /\ handlerOutcome = [c \in Calls |-> NoOutcome]
    /\ attempts = [c \in Calls |-> <<>>]
    /\ entryIndex = [c \in Calls |-> Null]
    /\ sent = [c \in Calls |-> <<>>]
    /\ switched = FALSE
    /\ returnValue = [c \in Calls |-> NoOutcome]

(* ------------------------- session provider --------------------------- *)

\* browserManager.switchAccount(index): the value of currentAuthIndex once
\* the returned promise has settled
switchAccount(index, ok) == IF ok THEN index ELSE currentAuthIndex

\* browserManager.launchOrSwitchContext(index), likewise
launchOrSwitchContext(index, ok) == IF ok THEN index ELSE currentAuthIndex

\* the Error a rejected provider promise carries
ProviderError(m) == [message |-> [template |-> m]]

\* a browserManager call issued by a switch
Activation(method, index) == [method |-> method, index |-> index]

(* ----------------------------- AuthSwitcher --------------------------- *)

\* only the usage counter reset
resetUsageOnly == [failureCount |-> failureCount, usageCount |-> 0]

\* resetCounters(): the values of the two counters afterwards
resetCounters == [failureCount |-> 0, usageCount |-> 0]

\* the busy check dropped
BusyNeverChecked == FALSE

\* `if (this.isSystemBusy)` at the entry of both switch methods
Busy == isSystemBusy

\* the flag left as it was on exit
finallyKeepsFlag == isSystemBusy

\* the value the `finally` blocks leave in isSystemBusy
finallyRelease == FALSE

\* every message taken to contain the phrase
messageIncludesAnything(message, phrase) == TRUE

\* error.message.includes(phrase)
messageIncludes(message, phrase) == message.template = phrase

\* the message counting one candidate too few
AllFailedErrorOffByOne(length) ==
    [message |->
        [template |-> "All ${available.length} available accounts failed to initialize (including final retry).",
         length   |-> length - 1]]

EmptyError ==
    [message |-> [template |-> "No available authentication sources, cannot switch."]]

AllFailedError(length) ==
    [message |->
        [template |-> "All ${available.length} available accounts failed to initialize (including final retry).",
         length   |-> length]]

SkipResult == [reason |-> "Switch already in progress.", success |-> FALSE]

InvalidResult ==
    [reason  |-> "Switch failed: Account #${targetIndex} invalid or does not exist.",
     success |-> FALSE]

\* the element at the current position, the advance by one forgotten
getNextAuthIndexNoAdvance ==
    LET available == availableIndices
        currentIndexInArray == indexOf(available, currentAuthIndex)
    IN  IF Len(available) = 0 THEN Null
        ELSE IF currentIndexInArray = -1 THEN Some(At(available, 0))
        ELSE Some(At(available, currentIndexInArray % Len(available)))

\* getNextAuthIndex(): Null stands for JavaScript null
getNextAuthIndex ==
    LET available == availableIndices
        currentIndexInArray == indexOf(available, currentAuthIndex)
    IN  IF Len(available) = 0 THEN Null
        ELSE IF currentIndexInArray = -1 THEN Some(At(available, 0))
        ELSE Some(At(available, (currentIndexInArray + 1) % Len(available)))

\* shouldSwitchByUsage() for a given config.switchOnUses
shouldSwitchByUsage(switchOnUses) ==
    switchOnUses > 0 /\ usageCount >= switchOnUses

\* the walk started at position 0 instead of at the current account
TryIndexFromZero(startIndex, i, length) == i % length

\* tryIndex in the candidate loop
TryIndex(startIndex, i, length) == (startIndex + i) % length

\* Continuations of settled promises are microtasks: they run before the next
\* provider callback or caller.  A call whose switch method has settled
\* ("resume") or that has settled itself ("done") therefore steps next:
\* HandlerResumes runs the rest of the handler, Deliver hands the outcome to
\* the caller and frees the slot.
NoneDone == \A c \in Calls : pc[c] \notin {"resume", "done"}

\* Call slots only name invocations, so a new invocation takes the lowest
\* free slot.
Free(c) ==
    /\ pc[c] = "idle"
    /\ \A d \in Calls : d < c => pc[d] # "idle"

\* the failure-policy variables no step of a switch method touches
SwitchFrame == UNCHANGED << availableIndices, failureThreshold >>

\* currentAuthIndex left as it was
unsetIndexKept == currentAuthIndex

\* the value line 174 stores in currentAuthIndex: no account
unsetIndex == 0

\* all candidates failed: lines 170-178
AllCandidatesFailed(c, loc, after) ==
    /\ currentAuthIndex' = unsetIndex
    /\ switchOutcome' =
          [switchOutcome EXCEPT ![c] = Threw(AllFailedError(Len(availableIndices)))]
    /\ isSystemBusy' = finallyRelease
    /\ pc' = [pc EXCEPT ![c] = after]
    /\ locals' = [locals EXCEPT ![c] = loc]
    /\ UNCHANGED attempts

\* the final attempt with the original account, or total failure: lines 141-178
AfterLoop(c, loc, busy, after) ==
    IF loc.hasCurrentAccount /\ Truthy(loc.originalStartAccount)
    THEN /\ attempts' = [attempts EXCEPT ![c] =
                Append(@, Activation("switchAccount", loc.originalStartAccount[1]))]
         /\ pc' = [pc EXCEPT ![c] = "final"]
         /\ locals' = [locals EXCEPT ![c] = loc]
         /\ isSystemBusy' = busy
         /\ UNCHANGED << currentAuthIndex, switchOutcome >>
    ELSE AllCandidatesFailed(c, loc, after)

\* the whole list walked also when the current account is a member
tryCountWholeList(hasCurrentAccount, length) == length

\* one candidate fewer tried whether or not the current account is a member
tryCountOthersOnly(hasCurrentAccount, length) == length - 1

\* tryCount, the number of candidates the loop walks: line 109
tryCount(hasCurrentAccount, length) ==
    IF hasCurrentAccount THEN length - 1 ELSE length

\* the head of the candidate loop with the loop variable at loc.i: lines 111-121
CandidateLoop(c, loc, busy, after) ==
    IF loc.i < loc.startOffset + loc.tryCount
    THEN LET tryIndex == TryIndex(loc.startIndex, loc.i, Len(availableIndices))
             accountIndex == At(availableIndices, tryIndex)
         IN  /\ attempts' = [attempts EXCEPT ![c] =
                    Append(@, Activation("switchAccount", accountIndex))]
             /\ pc' = [pc EXCEPT ![c] = "switch"]
             /\ locals' = [locals EXCEPT ![c] =
                    [loc EXCEPT !.accountIndex = Some(accountIndex)]]
             /\ isSystemBusy' = busy
             /\ UNCHANGED << currentAuthIndex, switchOutcome >>
    ELSE AfterLoop(c, loc, busy, after)

\* switchToNextAuth() from its entry to its first await, return or throw:
\* lines 49-121.  `after` is where the call goes once the method has settled.
EnterSwitchToNextAuth(c, after) ==
    LET available == availableIndices IN
    /\ entryIndex' = [entryIndex EXCEPT ![c] = Some(currentAuthIndex)]
    /\ IF Len(available) = 0
       THEN /\ switchOutcome' = [switchOutcome EXCEPT ![c] = Threw(EmptyError)]
            /\ pc' = [pc EXCEPT ![c] = after]
            /\ UNCHANGED << isSystemBusy, locals, attempts, currentAuthIndex >>
       ELSE IF Busy
       THEN /\ switchOutcome' = [switchOutcome EXCEPT ![c] = Returned(SkipResult)]
            /\ pc' = [pc EXCEPT ![c] = after]
            /\ UNCHANGED << isSystemBusy, locals, attempts, currentAuthIndex >>
       ELSE IF Len(available) = 1
       THEN LET singleIndex == At(available, 0) IN
            /\ isSystemBusy' = TRUE
            /\ locals' = [locals EXCEPT ![c] =
                   [NoLocals EXCEPT !.singleIndex = Some(singleIndex)]]
            /\ attempts' = [attempts EXCEPT ![c] =
                   Append(@, Activation("launchOrSwitchContext", singleIndex))]
            /\ pc' = [pc EXCEPT ![c] = "restart"]
            /\ UNCHANGED << currentAuthIndex, switchOutcome >>
       ELSE LET currentIndexInArray == indexOf(available, currentAuthIndex)
                hasCurrentAccount == currentIndexInArray # -1
                startIndex == IF hasCurrentAccount THEN currentIndexInArray ELSE 0
                originalStartAccount ==
                    IF hasCurrentAccount THEN Some(At(available, startIndex)) ELSE Null
                startOffset == IF hasCurrentAccount THEN 1 ELSE 0
                loc == [ singleIndex          |-> Null,
                         currentIndexInArray  |-> currentIndexInArray,
                         hasCurrentAccount    |-> hasCurrentAccount,
                         startIndex           |-> startIndex,
                         originalStartAccount |-> originalStartAccount,
                         failedAccounts       |-> <<>>,
                         startOffset          |-> startOffset,
                         tryCount             |->
                             tryCount(hasCurrentAccount, Len(available)),
                         i                    |-> startOffset,
                         accountIndex         |-> Null ]
            IN  CandidateLoop(c, loc, TRUE, after)

\* where a call goes when its switch method has settled
AfterSwitch(c) ==
    IF op[c] = "handleRequestFailureAndSwitch" THEN "resume" ELSE "done"

\* a caller invokes switchToNextAuth()
SwitchToNextAuth(c) ==
    /\ NoneDone
    /\ Free(c)
    /\ op' = [op EXCEPT ![c] = "switchToNextAuth"]
    /\ EnterSwitchToNextAuth(c, "done")
    /\ SwitchFrame
    /\ UNCHANGED << switched, returnValue >>
    /\ UNCHANGED << failureCount, usageCount, arg, handlerOutcome, sent >>

\* the failed restart treated like the failure of all candidates
RestartFailedAsAllFailed(c, singleIndex, error) ==
    /\ currentAuthIndex' = unsetIndex
    /\ UNCHANGED << failureCount, usageCount >>
    /\ switchOutcome' = [switchOutcome EXCEPT ![c] = Threw(AllFailedError(1))]

\* the catch block of the single-account branch rethrows the provider's
\* error: lines 82-85
RestartFailed(c, singleIndex, error) ==
    /\ currentAuthIndex' = launchOrSwitchContext(singleIndex, FALSE)
    /\ UNCHANGED << failureCount, usageCount >>
    /\ switchOutcome' = [switchOutcome EXCEPT ![c] = Threw(error)]

\* launchOrSwitchContext(singleIndex) settles and the single-account branch
\* resumes: lines 74-86, 176-178
RestartSettles(c, ok, m) ==
    /\ NoneDone
    /\ pc[c] = "restart"
    /\ LET singleIndex == locals[c].singleIndex[1] IN
       IF ok
       THEN /\ currentAuthIndex' = launchOrSwitchContext(singleIndex, TRUE)
            /\ failureCount' = resetCounters.failureCount
            /\ usageCount' = resetCounters.usageCount
            /\ switchOutcome' = [switchOutcome EXCEPT ![c] =
                   Returned([newIndex |-> singleIndex, success |-> TRUE])]
       ELSE RestartFailed(c, singleIndex, ProviderError(m))
    /\ isSystemBusy' = finallyRelease
    /\ pc' = [pc EXCEPT ![c] = AfterSwitch(c)]
    /\ SwitchFrame
    /\ switched' = (switched \/ ok)
    /\ UNCHANGED returnValue
    /\ UNCHANGED << op, arg, locals, handlerOutcome, attempts, entryIndex, sent >>

\* switchAccount(accountIndex) of the candidate loop settles and the loop
\* resumes: lines 121-139
SwitchAccountSettles(c, ok) ==
    /\ NoneDone
    /\ pc[c] = "switch"
    /\ LET loc == locals[c]
           accountIndex == loc.accountIndex[1]
       IN  IF ok
           THEN /\ currentAuthIndex' = switchAccount(accountIndex, TRUE)
                /\ failureCount' = resetCounters.failureCount
                /\ usageCount' = resetCounters.usageCount
                /\ switchOutcome' = [switchOutcome EXCEPT ![c] =
                       Returned([failedAccounts |-> loc.failedAccounts,
                                 newIndex       |-> accountIndex,
                                 success        |-> TRUE])]
                /\ isSystemBusy' = finallyRelease
                /\ pc' = [pc EXCEPT ![c] = AfterSwitch(c)]
                /\ UNCHANGED << locals, attempts >>
           ELSE /\ UNCHANGED << failureCount, usageCount >>
                /\ CandidateLoop(c,
                       [loc EXCEPT !.failedAccounts = Append(@, accountIndex),
                                   !.i = @ + 1],
                       isSystemBusy, AfterSwitch(c))
    /\ SwitchFrame
    /\ switched' = (switched \/ ok)
    /\ UNCHANGED returnValue
    /\ UNCHANGED << op, arg, handlerOutcome, entryIndex, sent >>

\* switchAccount(originalStartAccount) of the final attempt settles:
\* lines 150-178
FinalAttemptSettles(c, ok) ==
    /\ NoneDone
    /\ pc[c] = "final"
    /\ LET loc == locals[c]
           originalStartAccount == loc.originalStartAccount[1]
       IN  IF ok
           THEN /\ currentAuthIndex' = switchAccount(originalStartAccount, TRUE)
                /\ failureCount' = resetCounters.failureCount
                /\ usageCount' = resetCounters.usageCount
                /\ switchOutcome' = [switchOutcome EXCEPT ![c] =
                       Returned([failedAccounts |-> loc.failedAccounts,
                                 finalAttempt   |-> TRUE,
                                 newIndex       |-> originalStartAccount,
                                 success        |-> TRUE])]
                /\ isSystemBusy' = finallyRelease
                /\ pc' = [pc EXCEPT ![c] = AfterSwitch(c)]
                /\ UNCHANGED << locals, attempts >>
           ELSE /\ UNCHANGED << failureCount, usageCount >>
                /\ AllCandidatesFailed(c,
                       [loc EXCEPT !.failedAccounts = Append(@, originalStartAccount)],
                       AfterSwitch(c))
    /\ SwitchFrame
    /\ switched' = (switched \/ ok)
    /\ UNCHANGED returnValue
    /\ UNCHANGED << op, arg, handlerOutcome, entryIndex, sent >>

\* a caller invokes switchToSpecificAuth(targetIndex): lines 181-196
SwitchToSpecificAuth(c, targetIndex) ==
    /\ NoneDone
    /\ Free(c)
    /\ op' = [op EXCEPT ![c] = "switchToSpecificAuth"]
    /\ arg' = [arg EXCEPT ![c] = [NoArg EXCEPT !.targetIndex = Some(targetIndex)]]
    /\ IF Busy
       THEN /\ switchOutcome' = [switchOutcome EXCEPT ![c] = Returned(SkipResult)]
            /\ pc' = [pc EXCEPT ![c] = "done"]
            /\ UNCHANGED << isSystemBusy, attempts >>
       ELSE IF ~includes(availableIndices, targetIndex)
       THEN /\ switchOutcome' = [switchOutcome EXCEPT ![c] = Returned(InvalidResult)]
            /\ pc' = [pc EXCEPT ![c] = "done"]
            /\ UNCHANGED << isSystemBusy, attempts >>
       ELSE /\ isSystemBusy' = TRUE
            /\ attempts' = [attempts EXCEPT ![c] =
                   Append(@, Activation("switchAccount", targetIndex))]
            /\ pc' = [pc EXCEPT ![c] = "specific"]
            /\ UNCHANGED switchOutcome
    /\ SwitchFrame
    /\ UNCHANGED << switched, returnValue >>
    /\ UNCHANGED << currentAuthIndex, failureCount, usageCount, locals,
                    handlerOutcome, entryIndex, sent >>

\* switchAccount(targetIndex) of switchToSpecificAuth settles: lines 196-205
SpecificSettles(c, ok, m) ==
    /\ NoneDone
    /\ pc[c] = "specific"
    /\ LET targetIndex == arg[c].targetIndex[1] IN
       /\ currentAuthIndex' = switchAccount(targetIndex, ok)
       /\ IF ok
          THEN /\ failureCount' = resetCounters.failureCount
               /\ usageCount' = resetCounters.usageCount
               /\ switchOutcome' = [switchOutcome EXCEPT ![c] =
                      Returned([newIndex |-> targetIndex, success |-> TRUE])]
          ELSE /\ UNCHANGED << failureCount, usageCount >>
               /\ switchOutcome' = [switchOutcome EXCEPT ![c] = Threw(ProviderError(m))]
    /\ isSystemBusy' = finallyRelease
    /\ pc' = [pc EXCEPT ![c] = "done"]
    /\ SwitchFrame
    /\ switched' = (switched \/ ok)
    /\ UNCHANGED returnValue
    /\ UNCHANGED << op, arg, locals, handlerOutcome, attempts, entryIndex, sent >>

\* isImmediateSwitch: line 220
isImmediateSwitch(status) == status \in immediateSwitchStatusCodes

\* the threshold compared without the `> 0` test
isThresholdReachedUnguarded(count) == count >= failureThreshold

\* isThresholdReached, evaluated on the incremented count: lines 221-222
isThresholdReached(count) == failureThreshold > 0 /\ count >= failureThreshold

\* a caller invokes handleRequestFailureAndSwitch(errorDetails, sendErrorCallback);
\* the method runs up to its await of switchToNextAuth(): lines 208-236
HandleRequestFailureAndSwitch(c, status, callback) ==
    /\ NoneDone
    /\ Free(c)
    /\ failureCount < MaxCount
    /\ op' = [op EXCEPT ![c] = "handleRequestFailureAndSwitch"]
    /\ arg' = [arg EXCEPT ![c] =
           [NoArg EXCEPT !.status = Some(status), !.sendErrorCallback = callback]]
    /\ failureCount' = failureCount + 1
    /\ IF isImmediateSwitch(status) \/ isThresholdReached(failureCount + 1)
       THEN /\ EnterSwitchToNextAuth(c, "resume")
            /\ UNCHANGED handlerOutcome
       ELSE /\ pc' = [pc EXCEPT ![c] = "done"]
            /\ handlerOutcome' = [handlerOutcome EXCEPT ![c] = Returned("undefined")]
            /\ UNCHANGED << isSystemBusy, locals, switchOutcome, attempts,
                            entryIndex, currentAuthIndex >>
    /\ SwitchFrame
    /\ UNCHANGED << switched, returnValue >>
    /\ UNCHANGED << usageCount, sent >>

\* the sink called without the test for its presence
NotifyUnguarded(c, message) ==
    sent' = [sent EXCEPT ![c] = Append(@, message)]

\* `if (sendErrorCallback) sendErrorCallback(message)`: lines 239-241, 246, 261
Notify(c, message) ==
    sent' = [sent EXCEPT ![c] =
                IF arg[c].sendErrorCallback THEN Append(@, message) ELSE @]

\* userMessage chosen in the catch block: lines 248-258
userMessage(message) ==
    IF messageIncludes(message, "Only one account is available")
    THEN "Switch failed: Only one account available."
    ELSE IF messageIncludes(message, "Fallback failed reason")
    THEN "Fatal error: Both automatic switching and emergency fallback failed, service may be interrupted, please check logs!"
    ELSE IF messageIncludes(message, "Switching to account")
    THEN "Automatic switch failed: Automatically fell back to account #${this.currentAuthIndex}, please check if target account has issues."
    ELSE "Fatal error: Unknown switching error occurred: ${error.message}"

\* the caught error thrown again
CaughtAndRethrown(error) == Threw(error)

\* how the handler settles once its catch block has handled a switch error:
\* lines 247-262 end without a throw
Caught(error) == Returned("undefined")

\* handleRequestFailureAndSwitch resumes after `await this.switchToNextAuth()`:
\* lines 236-263
HandlerResumes(c) ==
    /\ pc[c] = "resume"
    /\ LET settled == switchOutcome[c] IN
       IF settled.kind = "return"
       THEN /\ IF ~settled.value.success
               THEN Notify(c, "Account switch skipped: ${result.reason}")
               ELSE Notify(c, "Target account invalid, automatically fell back to account #${this.currentAuthIndex}.")
            /\ UNCHANGED failureCount
       ELSE /\ failureCount' =
                  IF messageIncludes(settled.error.message, "Only one account is available")
                  THEN 0 ELSE failureCount
            /\ Notify(c, userMessage(settled.error.message))
    /\ handlerOutcome' = [handlerOutcome EXCEPT ![c] =
           IF switchOutcome[c].kind = "return"
           THEN Returned("undefined")
           ELSE Caught(switchOutcome[c].error)]
    /\ pc' = [pc EXCEPT ![c] = "done"]
    /\ UNCHANGED << availableIndices, currentAuthIndex, failureThreshold, usageCount,
                    isSystemBusy, op, arg, locals, switchOutcome, attempts, entryIndex >>
    /\ UNCHANGED << switched, returnValue >>

\* the old count returned, as by `return this.usageCount++`
incrementUsageCountPostfix ==
    [usageCount |-> usageCount + 1, returned |-> usageCount]

\* incrementUsageCount(): the counter afterwards and the value returned,
\* lines 267-268
incrementUsageCount ==
    [usageCount |-> usageCount + 1, returned |-> usageCount + 1]

\* the frame of the synchronous methods: they touch no call's switch state
\* and none of the shared state but usageCount
SyncFrame ==
    UNCHANGED << availableIndices, currentAuthIndex, failureThreshold, failureCount,
                 isSystemBusy, locals, switchOutcome, handlerOutcome, attempts,
                 entryIndex, sent, switched >>

\* a synchronous method invoked by call c returns value
SyncReturn(c, method, value) ==
    /\ op' = [op EXCEPT ![c] = method]
    /\ returnValue' = [returnValue EXCEPT ![c] = Returned(value)]
    /\ pc' = [pc EXCEPT ![c] = "done"]

\* a caller invokes incrementUsageCount(): lines 266-269
IncrementUsageCount(c) ==
    /\ NoneDone
    /\ Free(c)
    /\ usageCount < MaxCount
    /\ usageCount' = incrementUsageCount.usageCount
    /\ SyncReturn(c, "incrementUsageCount", incrementUsageCount.returned)
    /\ SyncFrame
    /\ UNCHANGED arg

\* a caller invokes shouldSwitchByUsage(), config.switchOnUses being
\* switchOnUses: lines 271-273
ShouldSwitchByUsage(c, switchOnUses) ==
    /\ NoneDone
    /\ Free(c)
    /\ arg' = [arg EXCEPT ![c] = [NoArg EXCEPT !.switchOnUses = Some(switchOnUses)]]
    /\ SyncReturn(c, "shouldSwitchByUsage", shouldSwitchByUsage(switchOnUses))
    /\ SyncFrame
    /\ UNCHANGED usageCount

\* a caller invokes getNextAuthIndex(): lines 32-47
GetNextAuthIndex(c) ==
    /\ NoneDone
    /\ Free(c)
    /\ SyncReturn(c, "getNextAuthIndex", getNextAuthIndex)
    /\ SyncFrame
    /\ UNCHANGED << usageCount, arg >>

\* the settled call's outcome reaches its caller; the slot is free again
Deliver(c) ==
    /\ pc[c] = "done"
    /\ pc' = [pc EXCEPT ![c] = "idle"]
    /\ op' = [op EXCEPT ![c] = "none"]
    /\ arg' = [arg EXCEPT ![c] = NoArg]
    /\ locals' = [locals EXCEPT ![c] = NoLocals]
    /\ switchOutcome' = [switchOutcome EXCEPT ![c] = NoOutcome]
    /\ handlerOutcome' = [handlerOutcome EXCEPT ![c] = NoOutcome]
    /\ attempts' = [attempts EXCEPT ![c] = <<>>]
    /\ entryIndex' = [entryIndex EXCEPT ![c] = Null]
    /\ sent' = [sent EXCEPT ![c] = <<>>]
    /\ returnValue' = [returnValue EXCEPT ![c] = NoOutcome]
    /\ UNCHANGED << availableIndices, currentAuthIndex, failureThreshold,
                    failureCount, usageCount, isSystemBusy >>
    /\ UNCHANGED switched

Next ==
    \/ \E c \in Calls : SwitchToNextAuth(c)
    \/ \E c \in Calls, ok \in BOOLEAN, m \in ProviderMessages : RestartSettles(c, ok, m)
    \/ \E c \in Calls, ok \in BOOLEAN : SwitchAccountSettles(c, ok)
    \/ \E c \in Calls, ok \in BOOLEAN : FinalAttemptSettles(c, ok)
    \/ \E c \in Calls, targetIndex \in Ids : SwitchToSpecificAuth(c, targetIndex)
    \/ \E c \in Calls, ok \in BOOLEAN, m \in ProviderMessages : SpecificSettles(c, ok, m)
    \/ \E c \in Calls, status \in Statuses, callback \in BOOLEAN :
           HandleRequestFailureAndSwitch(c, status, callback)
    \/ \E c \in Calls : HandlerResumes(c)
    \/ \E c \in Calls : IncrementUsageCount(c)
    \/ \E c \in Calls, switchOnUses \in SwitchOnUsesValues :
           ShouldSwitchByUsage(c, switchOnUses)
    \/ \E c \in Calls : GetNextAuthIndex(c)
    \/ \E c \in Calls : Deliver(c)

Spec == Init /\ [][Next]_vars

\* a browserManager promise settles and the call awaiting it resumes
Settles ==
    \E c \in Calls, ok \in BOOLEAN :
        \/ SwitchAccountSettles(c, ok)
        \/ FinalAttemptSettles(c, ok)
        \/ \E m \in ProviderMessages : RestartSettles(c, ok, m)
        \/ \E m \in ProviderMessages : SpecificSettles(c, ok, m)

\* the event loop runs the continuation of a settled call
Continues == \E c \in Calls : HandlerResumes(c) \/ Deliver(c)

\* every browserManager promise settles in the end, however often other
\* callers are served in between, and the event loop does not stop while a
\* continuation is pending
Fairness == SF_vars(Settles) /\ WF_vars(Continues)

FairSpec == Spec /\ Fairness

(* ------------------------------ properties ---------------------------- *)

\* the calls between acquiring the busy flag and leaving their switch method
Holders == {c \in Calls : pc[c] \in AwaitPcs}

\* the browserManager calls that have been issued and have not settled
Outstanding ==
    {<<c, k>> \in Calls \X (1..(MaxId + 2)) :
        pc[c] \in AwaitPcs /\ k = Len(attempts[c])}

\* the call's switch method returned the skip result
Skipped(c) == switchOutcome[c] = Returned(SkipResult)

\* the call's switch method returned a success result
Succeeded(c) ==
    /\ switchOutcome[c].kind = "return"
    /\ switchOutcome[c].value.success

\* the call's switch method has settled
Settled(c) == pc[c] \in {"resume", "done"} /\ switchOutcome[c].kind # "none"

\* C1: in every reachable state at most one call holds the busy flag and at
\* most one session-activation call (switchAccount or launchOrSwitchContext)
\* is outstanding.
C1_SingleFlight ==
    /\ Cardinality(Holders) <= 1
    /\ Cardinality(Outstanding) <= 1

\* one call is suspended on the provider while another has just been invoked
C1_Witness ==
    \E c, d \in Calls :
        /\ c # d
        /\ pc[c] \in AwaitPcs
        /\ Len(attempts[c]) = 1
        /\ Settled(d)
        /\ Skipped(d)

\* C2: a switchToNextAuth call that starts on a non-empty candidate list while
\* the busy flag is set settles in the same step with the skip result, issues
\* no session-activation call and leaves usageCount, currentAuthIndex and the
\* busy flag unchanged; failureCount is unchanged too, apart from the
\* increment handleRequestFailureAndSwitch made before calling it.
C2_SkipWhileBusy ==
    [][\A c \in Calls :
          ( /\ pc[c] = "idle"
            /\ entryIndex'[c] # Null
            /\ isSystemBusy
            /\ Len(availableIndices) > 0 )
          => /\ pc'[c] \in {"resume", "done"}
             /\ switchOutcome'[c] =
                   Returned([reason |-> "Switch already in progress.", success |-> FALSE])
             /\ attempts'[c] = <<>>
             /\ Holders' = Holders
             /\ isSystemBusy' = isSystemBusy
             /\ usageCount' = usageCount
             /\ currentAuthIndex' = currentAuthIndex
             /\ failureCount' =
                   IF op'[c] = "switchToNextAuth" THEN failureCount ELSE failureCount + 1
      ]_vars

\* a direct switchToNextAuth call was skipped while another call's
\* activation sequence is running
C2_Witness ==
    \E c, d \in Calls :
        /\ c # d
        /\ pc[c] \in AwaitPcs
        /\ pc[d] = "done"
        /\ op[d] = "switchToNextAuth"
        /\ Skipped(d)
        /\ attempts[d] = <<>>

\* C3: the busy flag is set exactly while one switchToNextAuth or
\* switchToSpecificAuth call is between acquiring it and leaving, and it is
\* clear once a call that acquired it has settled, whatever the exit path.
C3_BusyIffInFlight ==
    /\ isSystemBusy <=> Cardinality(Holders) = 1
    /\ \A c \in Calls : (Settled(c) /\ attempts[c] # <<>>) => ~isSystemBusy

\* a call that acquired the flag has left by the all-candidates-failed throw
C3_Witness ==
    \E c \in Calls :
        /\ pc[c] = "done"
        /\ switchOutcome[c].kind = "throw"
        /\ Len(attempts[c]) > 1
        /\ currentAuthIndex = 0
        /\ ~isSystemBusy

\* the call entered the multi-account branch of switchToNextAuth
MultiAccount(c) ==
    /\ entryIndex[c] # Null
    /\ Len(availableIndices) > 1
    /\ attempts[c] # <<>>

\* the account that was current when the call entered switchToNextAuth is a
\* candidate
EnteredWithCurrent(c) ==
    /\ entryIndex[c] # Null
    /\ \E k \in DOMAIN availableIndices : availableIndices[k] = entryIndex[c][1]

\* the accounts the call has asked the provider to activate, in order
Attempted(c) == [k \in DOMAIN attempts[c] |-> attempts[c][k].index]

IsPrefix(s, t) == Len(s) <= Len(t) /\ \A k \in DOMAIN s : s[k] = t[k]

\* all but the last element
Front(s) == SubSeq(s, 1, Len(s) - 1)

\* the candidates at positions (p+1) mod n, ..., (p+n-1) mod n, then the one
\* at p, where p is the 0-based position of account `current`
RotationAfter(available, current) ==
    LET n == Len(available)
        p == (CHOOSE k \in DOMAIN available : available[k] = current) - 1
    IN  [k \in 1..n |-> available[((p + k) % n) + 1]]

\* C4: with more than one candidate and the current account at position p,
\* the switchAccount attempts are a prefix of the candidates at (p+1) mod n,
\* ..., (p+n-1) mod n followed by the original at p, and a success result
\* names the last attempted candidate as newIndex and the candidates
\* attempted before it, in order, as failedAccounts.
C4_TrialOrder ==
    \A c \in Calls :
        (MultiAccount(c) /\ EnteredWithCurrent(c)) =>
            /\ \A k \in DOMAIN attempts[c] : attempts[c][k].method = "switchAccount"
            /\ IsPrefix(Attempted(c), RotationAfter(availableIndices, entryIndex[c][1]))
            /\ (Settled(c) /\ Succeeded(c)) =>
                  /\ switchOutcome[c].value.newIndex = Attempted(c)[Len(attempts[c])]
                  /\ switchOutcome[c].value.failedAccounts = Front(Attempted(c))

\* three candidates, the walk wrapped around the end of the list, the first
\* candidate tried failed and the second succeeded
C4_Witness ==
    \E c \in Calls :
        /\ MultiAccount(c) /\ EnteredWithCurrent(c)
        /\ Len(availableIndices) = 3
        /\ entryIndex[c][1] = availableIndices[2]
        /\ Settled(c) /\ Succeeded(c)
        /\ switchOutcome[c].value.failedAccounts = << availableIndices[3] >>
        /\ switchOutcome[c].value.newIndex = availableIndices[1]

\* the call's switch method threw the all-accounts-failed error of line 175
ThrewAllFailed(c) ==
    /\ switchOutcome[c].kind = "throw"
    /\ switchOutcome[c].error.message.template =
          "All ${available.length} available accounts failed to initialize (including final retry)."

\* the candidates other than `current`, in trial order
OthersAfter(available, current) == Front(RotationAfter(available, current))

\* the call's attempt number k has been rejected by the provider
AttemptFailed(c, k) ==
    /\ Len(attempts[c]) >= k
    /\ ~(Len(attempts[c]) = k /\ pc[c] \in AwaitPcs)
    /\ ~(Len(attempts[c]) = k /\ Succeeded(c))

\* C5: with n > 1 candidates and the current account a member of the list,
\* whatever its value, once the n-1 others have failed exactly one more
\* switchAccount attempt is made, against the original; when it succeeds the
\* result is {success, finalAttempt, newIndex = original, failedAccounts =
\* the others in trial order} and both counters are 0, and when it fails the
\* original is appended last to failedAccounts.
C5_FinalAttemptOnOriginal ==
    \A c \in Calls :
        (MultiAccount(c) /\ EnteredWithCurrent(c)) =>
            LET n == Len(availableIndices)
                original == entryIndex[c][1]
                others == OthersAfter(availableIndices, original)
            IN  AttemptFailed(c, n - 1) =>
                    /\ Len(attempts[c]) = n
                    /\ Attempted(c) = Append(others, original)
                    /\ (Settled(c) /\ Succeeded(c)) =>
                          /\ switchOutcome[c].value =
                                [failedAccounts |-> others, finalAttempt |-> TRUE,
                                 newIndex |-> original, success |-> TRUE]
                          /\ failureCount = 0
                          /\ usageCount = 0
                    /\ (Settled(c) /\ ~Succeeded(c)) =>
                          locals[c].failedAccounts = Append(others, original)

\* C6: when switchToNextAuth fails on n > 1 candidates with the
\* all-candidates-failed error, every candidate has been attempted exactly
\* once (failedAccounts is the others in trial order followed by the
\* original when the current account was a member, the whole list from
\* position 0 otherwise) and currentAuthIndex is the unset value 0.
C6_AllCandidatesAttempted ==
    \A c \in Calls :
        (Settled(c) /\ ThrewAllFailed(c) /\ MultiAccount(c)) =>
            /\ \A a \in {availableIndices[k] : k \in DOMAIN availableIndices} :
                  Cardinality({k \in DOMAIN attempts[c] : attempts[c][k].index = a}) = 1
            /\ locals[c].failedAccounts =
                  IF EnteredWithCurrent(c)
                  THEN RotationAfter(availableIndices, entryIndex[c][1])
                  ELSE availableIndices
            /\ locals[c].failedAccounts = Attempted(c)
            /\ currentAuthIndex = 0

C8_CountersZeroOnSuccess ==
    \A c \in Calls :
        (Settled(c) /\ Succeeded(c)) => failureCount = 0 /\ usageCount = 0

\* a switch started by a failure report (which had raised failureCount) has
\* returned success from the single-account restart
C8_Witness ==
    \E c \in Calls :
        /\ pc[c] = "resume"
        /\ op[c] = "handleRequestFailureAndSwitch"
        /\ Succeeded(c)
        /\ attempts[c] = << [method |-> "launchOrSwitchContext",
                             index  |-> availableIndices[1]] >>

\* a step in which a session-activation call has just succeeded
ActivationSucceedsStep ==
    \E c \in Calls :
        /\ pc[c] \in AwaitPcs
        /\ switchOutcome'[c].kind = "return"
        /\ switchOutcome'[c].value.success

\* a step in which a session-activation call has just failed
ActivationFailsStep ==
    \E c \in Calls :
        /\ pc[c] \in AwaitPcs
        /\ pc'[c] # pc[c] \/ attempts'[c] # attempts[c]
        /\ ~(switchOutcome'[c].kind = "return" /\ switchOutcome'[c].value.success)

\* the step in which handleRequestFailureAndSwitch catches a switch error
\* whose message says that only one account is available
OnlyOneAccountCatchStep ==
    \E c \in Calls :
        /\ pc[c] = "resume"
        /\ pc'[c] = "done"
        /\ switchOutcome[c].kind = "throw"
        /\ switchOutcome[c].error.message.template = "Only one account is available"

\* C9 as stated: both counters are always >= 0 and a counter decreases or is
\* reset only in a step in which a session-activation call has just
\* succeeded.
C9_ResetOnlyOnSuccess ==
    /\ failureCount >= 0 /\ usageCount >= 0
    /\ [][ /\ failureCount' >= 0 /\ usageCount' >= 0
           /\ (failureCount' < failureCount \/ usageCount' < usageCount)
                 => ActivationSucceedsStep
           /\ ActivationFailsStep
                 => failureCount' = failureCount /\ usageCount' = usageCount
         ]_vars

\* C9, amended: both counters are always >= 0; usageCount decreases only in
\* a step in which a session-activation call has just succeeded, and
\* failureCount decreases only in such a step or in the step in which
\* handleRequestFailureAndSwitch catches a switch error whose message
\* contains "Only one account is available" (it then becomes 0, usageCount
\* unchanged); every step in which a session-activation call has just failed
\* leaves both counters unchanged.
C9_ResetOnSuccessOrOnlyOneCatch ==
    /\ failureCount >= 0 /\ usageCount >= 0
    /\ [][ /\ failureCount' >= 0 /\ usageCount' >= 0
           /\ usageCount' < usageCount => ActivationSucceedsStep
           /\ failureCount' < failureCount =>
                 \/ ActivationSucceedsStep
                 \/ OnlyOneAccountCatchStep /\ failureCount' = 0
           /\ ActivationFailsStep
                 => failureCount' = failureCount /\ usageCount' = usageCount
         ]_vars

\* the handler has caught the only-one-account error and cleared failureCount
\* while usageCount kept its value
C9_Witness ==
    \E c \in Calls :
        /\ pc[c] = "done"
        /\ op[c] = "handleRequestFailureAndSwitch"
        /\ switchOutcome[c].kind = "throw"
        /\ switchOutcome[c].error.message.template = "Only one account is available"
        /\ failureCount = 0
        /\ usageCount > 0

\* C10: each handleRequestFailureAndSwitch call raises failureCount by
\* exactly 1, and it calls switchToNextAuth if and only if the reported
\* status is in immediateSwitchStatusCodes or failureThreshold > 0 and the
\* incremented failureCount >= failureThreshold; otherwise it issues no
\* session-activation call, leaves the busy flag and currentAuthIndex
\* unchanged and completes -- so with failureThreshold = 0 and no immediate
\* status no report starts a switch.
C10_FailurePolicy ==
    [][\A c \in Calls :
          (pc[c] = "idle" /\ op'[c] = "handleRequestFailureAndSwitch") =>
              LET status == arg'[c].status[1]
                  triggers ==
                      \/ status \in immediateSwitchStatusCodes
                      \/ failureThreshold > 0 /\ failureCount + 1 >= failureThreshold
              IN  /\ failureCount' = failureCount + 1
                  /\ (entryIndex'[c] # Null) <=> triggers
                  /\ ~triggers =>
                        /\ attempts'[c] = <<>>
                        /\ Holders' = Holders
                        /\ isSystemBusy' = isSystemBusy
                        /\ currentAuthIndex' = currentAuthIndex
                        /\ pc'[c] = "done"
                  /\ (failureThreshold = 0 /\ status \notin immediateSwitchStatusCodes)
                        => entryIndex'[c] = Null /\ attempts'[c] = <<>>
      ]_vars

\* with the threshold disabled, a report with no immediate status has
\* completed without a switch although failureCount has reached the cap
C10_Witness ==
    \E c \in Calls :
        /\ pc[c] = "done"
        /\ op[c] = "handleRequestFailureAndSwitch"
        /\ arg[c].status = << 500 >>
        /\ failureThreshold = 0
        /\ failureCount = MaxCount
        /\ entryIndex[c] = Null
        /\ attempts[c] = <<>>

\* the call is a handleRequestFailureAndSwitch call that has completed
HandlerDone(c) ==
    /\ pc[c] = "done"
    /\ op[c] = "handleRequestFailureAndSwitch"

\* the handler's policy triggered: it called switchToNextAuth
Triggered(c) == entryIndex[c] # Null

\* the call's switch method threw the empty-candidate-list error of line 53
ThrewEmpty(c) ==
    /\ switchOutcome[c].kind = "throw"
    /\ switchOutcome[c].error.message.template =
          "No available authentication sources, cannot switch."

\* C11: handleRequestFailureAndSwitch never completes with a raised error
\* because of the outcome of the switch it delegated to: after a skip, a
\* success, the empty-list error, a failed single-account restart or the
\* all-candidates-failed error it returns normally, and the outcome has
\* been passed to the notification callback when one was supplied.
C11_HandlerNeverThrows ==
    \A c \in Calls :
        HandlerDone(c) =>
            /\ handlerOutcome[c].kind = "return"
            /\ (Triggered(c) /\ arg[c].sendErrorCallback) => sent[c] # <<>>

\* a handler has completed after its switch threw all-candidates-failed
C11_Witness ==
    \E c \in Calls :
        /\ HandlerDone(c)
        /\ ThrewAllFailed(c)
        /\ arg[c].sendErrorCallback
        /\ handlerOutcome[c].kind = "return"

\* the step is an invocation of switchToSpecificAuth by call c that settles
\* at once with result r, issues no session-activation call and leaves the
\* busy flag, the counters and currentAuthIndex unchanged
RefusedWith(c, r) ==
    /\ pc'[c] = "done"
    /\ switchOutcome'[c] = Returned(r)
    /\ attempts'[c] = <<>>
    /\ Holders' = Holders
    /\ isSystemBusy' = isSystemBusy
    /\ failureCount' = failureCount
    /\ usageCount' = usageCount
    /\ currentAuthIndex' = currentAuthIndex

\* the target passed in the step's switchToSpecificAuth invocation is a
\* candidate
TargetIsMember(c) ==
    \E k \in DOMAIN availableIndices : availableIndices[k] = arg'[c].targetIndex[1]

\* C12 as stated: in every state, busy or not, switchToSpecificAuth with a
\* target outside the candidate list returns the invalid-target result,
\* issues no session-activation call and changes nothing.
C12_InvalidTargetAlways ==
    [][\A c \in Calls :
          ( /\ pc[c] = "idle"
            /\ op'[c] = "switchToSpecificAuth"
            /\ ~TargetIsMember(c) )
          => RefusedWith(c,
                [reason  |-> "Switch failed: Account #${targetIndex} invalid or does not exist.",
                 success |-> FALSE])
      ]_vars

\* C12, amended: the busy check comes first.  While the busy flag is set
\* switchToSpecificAuth returns the skip result for every target, member or
\* not; while it is clear, a target outside the candidate list gets the
\* invalid-target result.  Either way nothing is raised, no
\* session-activation call is issued and the busy flag, the counters and
\* currentAuthIndex are unchanged.
C12_BusyCheckedBeforeTarget ==
    [][\A c \in Calls :
          (pc[c] = "idle" /\ op'[c] = "switchToSpecificAuth") =>
              /\ isSystemBusy =>
                    RefusedWith(c,
                        [reason |-> "Switch already in progress.", success |-> FALSE])
              /\ (~isSystemBusy /\ ~TargetIsMember(c)) =>
                    RefusedWith(c,
                        [reason  |-> "Switch failed: Account #${targetIndex} invalid or does not exist.",
                         success |-> FALSE])
      ]_vars

\* while another call holds the busy flag, a direct switch to a target
\* outside the candidate list has been answered with the skip result
C12_Witness ==
    \E c, d \in Calls :
        /\ pc[c] \in AwaitPcs
        /\ pc[d] = "done"
        /\ op[d] = "switchToSpecificAuth"
        /\ \A k \in DOMAIN availableIndices :
              availableIndices[k] # arg[d].targetIndex[1]
        /\ Skipped(d)

\* C13: when handleRequestFailureAndSwitch triggers a switch on a candidate
\* list of exactly one element and that candidate's restart fails,
\* failureCount is 0 when the handler completes.
C13_SingleCandidateFailureResets ==
    \A c \in Calls :
        ( /\ HandlerDone(c)
          /\ Len(availableIndices) = 1
          /\ Len(attempts[c]) = 1
          /\ switchOutcome[c].kind = "throw" )
        => failureCount = 0

\* currentAuthIndex holds the no-account value.  Where 0 is itself a
\* candidate identifier the value 0 names that account, so the index counts
\* as unset only where 0 is no candidate.
Unset ==
    /\ currentAuthIndex = 0
    /\ \A k \in DOMAIN availableIndices : availableIndices[k] # 0

\* the call is in the candidate loop of switchToNextAuth with no designated
\* original account (and so no final attempt)
RunsWithoutOriginal(c) ==
    /\ pc[c] = "switch"
    /\ locals[c].originalStartAccount = Null

\* C14 as stated: once any switch has succeeded, currentAuthIndex holds a
\* set value in every later state, so a multi-account switchToNextAuth call
\* runs without a designated original only before the first successful
\* switch.
C14_SetForeverAfterSuccess ==
    switched =>
        /\ ~Unset
        /\ \A c \in Calls : ~RunsWithoutOriginal(c)

\* a step in which switchToNextAuth throws the all-accounts-failed error
AllFailedStep ==
    \E c \in Calls :
        /\ pc[c] \in {"switch", "final"}
        /\ switchOutcome'[c].kind = "throw"
        /\ switchOutcome'[c].error.message.template =
              "All ${available.length} available accounts failed to initialize (including final retry)."

\* C14, amended: once a switch has succeeded, currentAuthIndex holds a set
\* value until a switchToNextAuth call fails with the all-accounts-failed
\* error, which stores the unset value 0 in it; currentAuthIndex changes in
\* no other step than a successful activation and that failure.  A
\* multi-account call made after such a failure runs without a designated
\* original although switches have succeeded before.
C14_SetUntilAllFailed ==
    [][ /\ AllFailedStep => currentAuthIndex' = 0
        /\ currentAuthIndex' # currentAuthIndex =>
              ActivationSucceedsStep \/ AllFailedStep
        /\ (switched /\ ~Unset /\ Unset') => AllFailedStep
      ]_vars

\* after an earlier success and a later total failure the index is unset
\* and a multi-account call runs without a designated original
C14_Witness ==
    \E c \in Calls :
        /\ switched
        /\ Unset
        /\ Len(availableIndices) > 1
        /\ RunsWithoutOriginal(c)

\* a step in which call c invokes the synchronous method and it returns
SyncStep(c, method) ==
    /\ pc[c] = "idle"
    /\ op'[c] = method

\* the shared state and every call's activation record are as before
NoSwitchStarted ==
    /\ UNCHANGED << isSystemBusy, failureCount, currentAuthIndex, attempts,
                    availableIndices >>
    /\ \A d \in Calls : pc'[d] \notin AwaitPcs \ {pc[d]}

\* the 0-based positions at which the current account sits in the set
PositionsOfCurrent ==
    { p \in 0..(Len(availableIndices) - 1) : availableIndices[p + 1] = currentAuthIndex }

\* C15: getNextAuthIndex changes no state and returns null for an empty
\* set, the element at position (p+1) mod n when the current account is at
\* position p of a set of size n (the same element when n = 1), and the
\* first element when the current account is not in the set.
C15_NextIndexIsSuccessor ==
    [][ \A c \in Calls : SyncStep(c, "getNextAuthIndex") =>
          LET n == Len(availableIndices)
              value == returnValue'[c].value
          IN  /\ returnValue'[c].kind = "return"
              /\ n = 0 => value = Null
              /\ \A p \in PositionsOfCurrent :
                    value = Some(availableIndices[((p + 1) % n) + 1])
              /\ (n = 1 /\ PositionsOfCurrent # {}) => value = Some(currentAuthIndex)
              /\ (n > 0 /\ PositionsOfCurrent = {}) => value = Some(availableIndices[1])
              /\ NoSwitchStarted
              /\ UNCHANGED usageCount
      ]_vars

\* with the current account at the last of three positions the selection
\* has wrapped round to the first element
C15_Witness ==
    \E c \in Calls :
        /\ pc[c] = "done"
        /\ op[c] = "getNextAuthIndex"
        /\ Len(availableIndices) = 3
        /\ availableIndices[3] = currentAuthIndex
        /\ returnValue[c] = Returned(Some(availableIndices[1]))

\* C16: incrementUsageCount raises usageCount by exactly 1 and returns the
\* new value; shouldSwitchByUsage returns whether usageCount >= switchOnUses
\* > 0 and changes no counter; neither of them changes isSystemBusy,
\* failureCount or currentAuthIndex or issues a session-activation call,
\* also when usageCount >= switchOnUses > 0.
C16_UsageMethodsStartNoSwitch ==
    [][ \A c \in Calls :
          /\ SyncStep(c, "incrementUsageCount") =>
                /\ usageCount' = usageCount + 1
                /\ returnValue'[c] = Returned(usageCount + 1)
                /\ NoSwitchStarted
          /\ SyncStep(c, "shouldSwitchByUsage") =>
                LET switchOnUses == arg'[c].switchOnUses[1]
                IN  /\ returnValue'[c].kind = "return"
                    /\ returnValue'[c].value =
                          (switchOnUses > 0 /\ usageCount >= switchOnUses)
                    /\ UNCHANGED usageCount
                    /\ NoSwitchStarted
      ]_vars

\* the usage predicate has just answered true after two increments, and
\* no switch is in flight
C16_Witness ==
    \E c \in Calls :
        /\ pc[c] = "done"
        /\ op[c] = "shouldSwitchByUsage"
        /\ returnValue[c] = Returned(TRUE)
        /\ usageCount = 2
        /\ arg[c].switchOnUses = Some(2)
        /\ ~isSystemBusy
        /\ Holders = {}

\* the call entered the multi-account branch of switchToNextAuth with a
\* current account that is not a candidate
MultiAccountWithoutCurrent(c) ==
    /\ MultiAccount(c)
    /\ ~EnteredWithCurrent(c)

\* C17: in switchToNextAuth with n > 1 candidates and a current account that
\* is not a candidate, the attempts are switchAccount calls on the candidates
\* at positions 0, 1, ..., n-1 in that order, stopping at the first success;
\* no original is designated and no final attempt is made; after n failures
\* the call has thrown the all-accounts-failed error with exactly n
\* switchAccount calls made.
C17_AbsentCurrentWalksFromZero ==
    \A c \in Calls :
        MultiAccountWithoutCurrent(c) =>
            /\ IsPrefix(Attempted(c), availableIndices)
            /\ \A k \in DOMAIN attempts[c] : attempts[c][k].method = "switchAccount"
            /\ pc[c] # "final"
            /\ locals[c].originalStartAccount = Null
            /\ ~locals[c].hasCurrentAccount
            /\ locals[c].failedAccounts =
                  IF Settled(c) /\ ~Succeeded(c) THEN Attempted(c) ELSE Front(Attempted(c))
            /\ Settled(c) =>
                  IF Succeeded(c)
                  THEN switchOutcome[c].value.newIndex =
                          availableIndices[Len(attempts[c])]
                  ELSE /\ ThrewAllFailed(c)
                       /\ Len(attempts[c]) = Len(availableIndices)

\* with the current account 0 absent from a two-candidate set, both
\* candidates were tried from position 0 on and the call failed
C17_Witness ==
    \E c \in Calls :
        /\ MultiAccountWithoutCurrent(c)
        /\ Settled(c)
        /\ ThrewAllFailed(c)
        /\ Len(availableIndices) = 2
        /\ Attempted(c) = availableIndices

\* a step in which the restart of the lone candidate, awaited by call c,
\* settles
RestartSettlesStep(c) ==
    /\ pc[c] = "restart"
    /\ pc'[c] # "restart"

\* C18: in switchToNextAuth with exactly one candidate the only activation
\* call ever made is one launchOrSwitchContext on that candidate, never
\* switchAccount; when it succeeds both counters are reset and {newIndex:
\* that candidate, success: true} is returned; when it fails the provider's
\* error is thrown to the caller as it is, both counters and
\* currentAuthIndex keep their values (no reset to the unset value), and in
\* both cases the busy flag is released.
C18_SingleCandidateRestart ==
    [][ \A c \in Calls :
          /\ ( /\ Len(availableIndices) = 1
               /\ op'[c] \in {"switchToNextAuth", "handleRequestFailureAndSwitch"} ) =>
                attempts'[c] \in
                   { <<>>, << Activation("launchOrSwitchContext", availableIndices[1]) >> }
          /\ RestartSettlesStep(c) =>
                /\ Len(availableIndices) = 1
                /\ attempts'[c] = attempts[c]
                /\ Len(attempts[c]) = 1
                /\ isSystemBusy /\ ~isSystemBusy'
                /\ IF switchOutcome'[c].kind = "return"
                   THEN /\ switchOutcome'[c].value =
                              [newIndex |-> availableIndices[1], success |-> TRUE]
                        /\ failureCount' = 0
                        /\ usageCount' = 0
                   ELSE /\ switchOutcome'[c].kind = "throw"
                        /\ \E m \in ProviderMessages :
                              switchOutcome'[c].error = ProviderError(m)
                        /\ UNCHANGED << failureCount, usageCount, currentAuthIndex >>
      ]_vars

\* the lone candidate's restart has failed with the counters above zero and
\* the current account still set: the provider's error is with the caller
C18_Witness ==
    \E c \in Calls :
        /\ pc[c] = "done"
        /\ op[c] = "switchToNextAuth"
        /\ Len(availableIndices) = 1
        /\ switchOutcome[c] = Threw(ProviderError("Browser launch failed"))
        /\ Len(attempts[c]) = 1
        /\ usageCount > 0
        /\ failureCount > 0
        /\ currentAuthIndex = availableIndices[1]
        /\ currentAuthIndex # 0
        /\ ~isSystemBusy

\* C19: a handleRequestFailureAndSwitch call that was given a notification
\* sink has invoked it exactly once by the time it completes when its policy
\* triggered a switch, whether the switch was skipped, succeeded or failed
\* with any error, and not at all when the policy did not trigger; it never
\* invokes the sink before the switch has settled; without a sink it makes
\* no invocation and completes normally in all these cases.
C19_SinkInvokedOncePerTrigger ==
    \A c \in Calls :
        op[c] = "handleRequestFailureAndSwitch" =>
            /\ pc[c] # "done" => sent[c] = <<>>
            /\ HandlerDone(c) =>
                  /\ Len(sent[c]) =
                        IF arg[c].sendErrorCallback /\ Triggered(c) THEN 1 ELSE 0
                  /\ Triggered(c) =>
                        \/ Skipped(c)
                        \/ Succeeded(c)
                        \/ switchOutcome[c].kind = "throw"
                  /\ ~arg[c].sendErrorCallback =>
                        handlerOutcome[c] = Returned("undefined")

\* a handler given a sink has completed after its switch failed on every
\* candidate: the sink received one message
C19_Witness ==
    \E c \in Calls :
        /\ HandlerDone(c)
        /\ arg[c].sendErrorCallback
        /\ ThrewAllFailed(c)
        /\ Len(sent[c]) = 1

\* the call is inside switchToNextAuth or switchToSpecificAuth, awaiting the
\* provider
InFlight(c) == pc[c] \in AwaitPcs

\* the call's activation calls are no more than the candidates and name no
\* candidate twice
BoundedAttempts(c) ==
    /\ Len(attempts[c]) <= Len(availableIndices)
    /\ \A j, k \in DOMAIN attempts[c] :
          attempts[c][j].index = attempts[c][k].index => j = k
    /\ \A k \in DOMAIN attempts[c] :
          \E p \in DOMAIN availableIndices : availableIndices[p] = attempts[c][k].index

\* C20: a switchToNextAuth call on n distinct candidates makes at most n
\* session-activation calls and attempts no candidate twice; and when every
\* session-activation call eventually settles, every switchToNextAuth and
\* switchToSpecificAuth call eventually returns or throws and a set busy flag
\* is eventually clear again.
C20_BoundedAndTerminating ==
    /\ [](\A c \in Calls : BoundedAttempts(c))
    /\ \A c \in Calls : InFlight(c) ~> Settled(c)
    /\ isSystemBusy ~> ~isSystemBusy

\* a call on three candidates has settled after three activation calls and
\* the busy flag is clear
C20_Witness ==
    \E c \in Calls :
        /\ Settled(c)
        /\ entryIndex[c] # Null
        /\ Len(availableIndices) = 3
        /\ Len(attempts[c]) = 3
        /\ ~isSystemBusy

====
